---------------------------- MODULE Spec2Model ----------------------------
(***************************************************************************)
(* rollup-plugin-ts-paths-resolve: the alias pattern compiler              *)
(* (createMappings), the matcher and candidate resolver (findResolve) and  *)
(* the plugin's resolveId hook.                                            *)
(*                                                                         *)
(* src/src/index.ts holds three successive variants of the plugin; the     *)
(* model is of the last one (lines 357-581), the one that has findResolve. *)
(*                                                                         *)
(* A JavaScript string is a sequence of one-character strings; indices in  *)
(* the string helpers are 0-based as in JavaScript.  Console output        *)
(* (formatLog, console.warn, console.log) changes no state and is left     *)
(* out, and with it logLevel, which the code reads only to decide whether  *)
(* to print.  The external services (ts.resolveModuleName, fs.existsSync,  *)
(* fallback.resolveId) answer nondeterministically; what they were asked   *)
(* is recorded.  resolveId runs to its return in one step: it has no       *)
(* suspension point of its own, the fallback's promise is returned as is.  *)
(***************************************************************************)
EXTENDS Integers, Sequences, FiniteSets, TLC

VARIABLES
    compilerOptions,  \* [baseUrl, paths]: what getTsConfig returned
    mappings,         \* createMappings(compilerOptions): the compiled matchers
    request,          \* the specifier of the latest resolveId call
    importer,         \* its importer (UNDEFINED for an entry point)
    matched,          \* findResolve's `matched`: an index of mappings, 0 = undefined
    matchedWildcard,  \* findResolve's `matchedWildcard` (the capture)
    tsOk,             \* the paths ts.resolveModuleName resolves, during this call
    fsOk,             \* the paths fs.existsSync reports, during this call
    tsCalls,          \* the paths handed to ts.resolveModuleName, in call order
    fsCalls,          \* the paths handed to fs.existsSync, in call order
    fbCalls,          \* the (source, importer) pairs handed to fallback.resolveId
    result,           \* what resolveId returned
    pc,               \* "idle": no call in progress; "returned": resolveId has
                      \* returned and its frame (the variables from request on)
                      \* is still there to look at
    first             \* history: the first call of the behaviour, with what it
                      \* was answered and what came of it (kept by SpecAgain only)

vars == << compilerOptions, mappings, request, importer, matched, matchedWildcard,
           tsOk, fsOk, tsCalls, fsCalls, fbCalls, result, pc, first >>

---------------------------------------------------------------------------
(* Bounds of the model.                                                    *)

MaxEntries == 2
MaxTargets == 2
MaxReqLen == 3

---------------------------------------------------------------------------
(* JavaScript string primitives.                                           *)

Min(a, b) == IF a < b THEN a ELSE b

\* String.prototype.substr(start, length), for start >= 0.
Substr(s, start, length) ==
    IF length <= 0 \/ start >= Len(s) THEN << >>
    ELSE SubSeq(s, start + 1, Min(Len(s), start + length))

\* String.prototype.substr(start): to the end of the string.
SubstrFrom(s, start) == SubSeq(s, start + 1, Len(s))

\* String.prototype.startsWith
StartsWith(s, p) == Len(p) <= Len(s) /\ SubSeq(s, 1, Len(p)) = p

\* String.prototype.endsWith
EndsWith(s, p) == Len(p) <= Len(s) /\ SubSeq(s, Len(s) - Len(p) + 1, Len(s)) = p

RECURSIVE IndexFrom(_, _, _)
\* The first 0-based position >= i at which sub occurs in s, or -1.
IndexFrom(s, sub, i) ==
    IF i + Len(sub) > Len(s) THEN -1
    ELSE IF SubSeq(s, i + 1, i + Len(sub)) = sub THEN i
    ELSE IndexFrom(s, sub, i + 1)

\* String.prototype.indexOf
IndexOf(s, sub) == IndexFrom(s, sub, 0)

\* String.prototype.replace(pattern, replacement) with a string pattern: only
\* the first occurrence is replaced.  (No string of the model holds a `$`, so
\* the replacement is never read as a replacement pattern.)
Replace(s, pat, repl) ==
    LET i == IndexOf(s, pat)
    IN  IF i = -1 THEN s
        ELSE SubSeq(s, 1, i) \o repl \o SubSeq(s, i + Len(pat) + 1, Len(s))

---------------------------------------------------------------------------
(* path.resolve (POSIX) of an absolute base and one further path.          *)

RECURSIVE SplitFrom(_, _, _)
\* The "/"-separated segments of p from position i on, cur being the segment
\* read so far.
SplitFrom(p, i, cur) ==
    IF i > Len(p) THEN << cur >>
    ELSE IF p[i] = "/" THEN << cur >> \o SplitFrom(p, i + 1, << >>)
    ELSE SplitFrom(p, i + 1, Append(cur, p[i]))

RECURSIVE NormalizeSegments(_, _, _)
\* Drops empty and "." segments; ".." removes the segment before it.
NormalizeSegments(segs, i, acc) ==
    IF i > Len(segs) THEN acc
    ELSE IF segs[i] = << >> \/ segs[i] = << "." >> THEN NormalizeSegments(segs, i + 1, acc)
    ELSE IF segs[i] = << ".", "." >>
         THEN NormalizeSegments(segs, i + 1,
                                IF acc = << >> THEN acc ELSE SubSeq(acc, 1, Len(acc) - 1))
    ELSE NormalizeSegments(segs, i + 1, Append(acc, segs[i]))

RECURSIVE JoinSegments(_, _)
JoinSegments(segs, i) ==
    IF i > Len(segs) THEN << >>
    ELSE << "/" >> \o segs[i] \o JoinSegments(segs, i + 1)

PathResolve(from, to) ==
    LET full == IF StartsWith(to, << "/" >>) THEN to ELSE from \o << "/" >> \o to
        segs == NormalizeSegments(SplitFrom(full, 1, << >>), 1, << >>)
    IN  IF segs = << >> THEN << "/" >> ELSE JoinSegments(segs, 1)

---------------------------------------------------------------------------
(* Literals of the program.                                                *)

STAR == << "*" >>

NUL == << "\\0" >>

AT_TYPES == << "@", "t", "y", "p", "e", "s" >>

DOT_D_TS == << ".", "d", ".", "t", "s" >>

NODE_MODULES == << "n", "o", "d", "e", "_", "m", "o", "d", "u", "l", "e", "s", "/" >>

\* typeof importer === "undefined": no JavaScript string equals this value.
UNDEFINED == << "undefined" >>

\* The null a fallback resolver may answer.
NULL == << "null" >>

---------------------------------------------------------------------------
(* createMappings                                                          *)

RECURSIVE CountFrom(_, _)
CountFrom(value, i) ==
    IF i > Len(value) THEN 0
    ELSE (IF value[i] = "*" THEN 1 ELSE 0) + CountFrom(value, i + 1)

\* countWildcard: value.match(/\*/g)?.length; undefined (no match) is 0 here,
\* both compare false with `> 1`.
countWildcard(value) == CountFrom(value, 1)

\* valid: /(\*|\/\*|\/\*\/)/.test(value), an unanchored search.
valid(value) ==
    \/ IndexOf(value, << "*" >>) # -1
    \/ IndexOf(value, << "/", "*" >>) # -1
    \/ IndexOf(value, << "/", "*", "/" >>) # -1

\* Mutant of RejectPattern: the wildcard count is never looked at.
RejectPatternNoCount(pattern) ==
    IndexOf(pattern, STAR) # -1 /\ ~valid(pattern)

\* The two `continue`s on the pattern alone.
RejectPattern(pattern) ==
    \/ countWildcard(pattern) > 1
    \/ (IndexOf(pattern, STAR) # -1 /\ ~valid(pattern))

\* The filter callback on one target.
KeepTarget(target) ==
    /\ ~(IndexOf(target, STAR) # -1 /\ ~valid(target))
    /\ ~(IndexOf(target, AT_TYPES) # -1 \/ EndsWith(target, DOT_D_TS))

RECURSIVE FilterTargets(_, _)
\* Array.prototype.filter with KeepTarget, from position i on.
FilterTargets(targets, i) ==
    IF i > Len(targets) THEN << >>
    ELSE (IF KeepTarget(targets[i]) THEN << targets[i] >> ELSE << >>)
         \o FilterTargets(targets, i + 1)

\* The mapping pushed for one surviving entry.
MakeMapping(pattern, targets) ==
    IF pattern = STAR
    THEN [ wildcard |-> TRUE, pattern |-> pattern,
           prefix |-> << >>, suffix |-> << >>, targets |-> targets ]
    ELSE LET wildcard == IndexOf(pattern, STAR)
         IN  [ wildcard |-> wildcard # -1, pattern |-> pattern,
               prefix |-> Substr(pattern, 0, wildcard),
               suffix |-> SubstrFrom(pattern, wildcard + 1),
               targets |-> targets ]

RECURSIVE CompileFrom(_, _)
\* The loop over Object.keys(compilerOptions.paths), from entry i on.  paths is
\* the sequence of [pattern, targets] entries in key order.
CompileFrom(paths, i) ==
    IF i > Len(paths) THEN << >>
    ELSE LET pattern == paths[i].pattern
             targets == FilterTargets(paths[i].targets, 1)
         IN  (IF RejectPattern(pattern) \/ Len(targets) = 0
              THEN << >>
              ELSE << MakeMapping(pattern, targets) >>)
             \o CompileFrom(paths, i + 1)

createMappings(options) == CompileFrom(options.paths, 1)

---------------------------------------------------------------------------
(* findResolve                                                             *)

\* The test of the first `if` of the loop.
WildcardMatches(mapping, req) ==
    /\ mapping.wildcard
    /\ Len(req) >= Len(mapping.prefix) + Len(mapping.suffix)
    /\ StartsWith(req, mapping.prefix)
    /\ EndsWith(req, mapping.suffix)

\* longestMatchedPrefixLength < prefix.length
LongerPrefix(longest, prefixLength) == longest < prefixLength

RECURSIVE MatchLoopNoBreak(_, _, _, _, _)
\* The selection loop without the `break` of its exact-match branch.
MatchLoopNoBreak(maps, req, i, longest, m) ==
    IF i > Len(maps) THEN m
    ELSE IF WildcardMatches(maps[i], req)
         THEN IF LongerPrefix(longest, Len(maps[i].prefix))
              THEN MatchLoopNoBreak(maps, req, i + 1, Len(maps[i].prefix), i)
              ELSE MatchLoopNoBreak(maps, req, i + 1, longest, m)
    ELSE IF req = maps[i].pattern
         THEN MatchLoopNoBreak(maps, req, i + 1, longest, i)
    ELSE MatchLoopNoBreak(maps, req, i + 1, longest, m)

\* Mutant of FindMatched: an exact match does not end the search.
FindMatchedNoBreak(maps, req) == MatchLoopNoBreak(maps, req, 1, 0, 0)

RECURSIVE MatchLoop(_, _, _, _, _)
\* The selection loop from mapping i on; longest and m are
\* longestMatchedPrefixLength and matched (an index, 0 = undefined).
MatchLoop(maps, req, i, longest, m) ==
    IF i > Len(maps) THEN m
    ELSE IF WildcardMatches(maps[i], req)
         THEN IF LongerPrefix(longest, Len(maps[i].prefix))
              THEN MatchLoop(maps, req, i + 1, Len(maps[i].prefix), i)
              ELSE MatchLoop(maps, req, i + 1, longest, m)
    ELSE IF req = maps[i].pattern
         THEN i
    ELSE MatchLoop(maps, req, i + 1, longest, m)

\* let longestMatchedPrefixLength = 0; let matched = undefined; the loop.
FindMatched(maps, req) == MatchLoop(maps, req, 1, 0, 0)

\* const matchedWildcard = request.substr(prefix.length, request.length - suffix.length)
MatchedWildcard(mapping, req) ==
    Substr(req, Len(mapping.prefix), Len(req) - Len(mapping.suffix))

\* predicted, then answer = path.resolve(compilerOptions.baseUrl, predicted)
Answer(options, mapping, capture, target) ==
    PathResolve(options.baseUrl,
                IF mapping.wildcard THEN Replace(target, STAR, capture) ELSE target)

\* result.resolvedModule.resolvedFileName, for a path the service resolves.
ResolvedFileName(answer) == answer \o << ".", "t", "s" >>

\* Mutant of TargetAt: the targets are walked from the last to the first.
TargetAtReversed(targets, i) == targets[Len(targets) + 1 - i]

\* for (const target of matched.targets): the i-th target tried.
TargetAt(targets, i) == targets[i]

RECURSIVE TryTargets(_, _, _, _, _, _, _, _)
\* The loop over matched.targets from the i-th on.  ts and fs are the calls
\* made so far; okTs and okFs are the external answers.
TryTargets(options, mapping, capture, i, okTs, okFs, ts, fs) ==
    IF i > Len(mapping.targets)
    THEN [ resolved |-> << >>, nodeModules |-> FALSE, ts |-> ts, fs |-> fs ]
    ELSE LET answer == Answer(options, mapping, capture, TargetAt(mapping.targets, i))
         IN  IF IndexOf(answer, NODE_MODULES) # -1
             THEN [ resolved |-> answer, nodeModules |-> TRUE, ts |-> ts, fs |-> fs ]
             ELSE IF answer \in okTs
             THEN [ resolved |-> ResolvedFileName(answer), nodeModules |-> FALSE,
                    ts |-> Append(ts, answer), fs |-> fs ]
             ELSE IF answer \in okFs
             THEN [ resolved |-> answer, nodeModules |-> FALSE,
                    ts |-> Append(ts, answer), fs |-> Append(fs, answer) ]
             ELSE TryTargets(options, mapping, capture, i + 1, okTs, okFs,
                             Append(ts, answer), Append(fs, answer))

\* findResolve: its return value [resolved, nodeModules], the external calls
\* it made (ts, fs) and its locals matched and matchedWildcard.
findResolve(options, maps, req, okTs, okFs) ==
    LET m == FindMatched(maps, req)
    IN  IF m = 0
        THEN [ resolved |-> << >>, nodeModules |-> FALSE, ts |-> << >>, fs |-> << >>,
               matched |-> 0, matchedWildcard |-> << >> ]
        ELSE LET capture == MatchedWildcard(maps[m], req)
                 tried == TryTargets(options, maps[m], capture, 1, okTs, okFs, << >>, << >>)
             IN  [ resolved |-> tried.resolved, nodeModules |-> tried.nodeModules,
                   ts |-> tried.ts, fs |-> tried.fs,
                   matched |-> m, matchedWildcard |-> capture ]

\* The candidate paths of mapping m for req: what the external services may
\* be asked about.
Candidates(options, maps, req) ==
    LET m == FindMatched(maps, req)
    IN  IF m = 0 THEN {}
        ELSE { Answer(options, maps[m], MatchedWildcard(maps[m], req), maps[m].targets[i])
               : i \in 1..Len(maps[m].targets) }

---------------------------------------------------------------------------
(* tsPathsResolve(...).resolveId                                           *)

\* The first `if`: return null.
Declines(req, imp) == imp = UNDEFINED \/ StartsWith(req, NUL)

\* Mutant of Delegation: a resolved path is returned whatever nodeModules says.
DelegationIgnoresNodeModules(found, req) ==
    IF found.resolved # << >>
    THEN [ delegate |-> FALSE, source |-> found.resolved ]
    ELSE [ delegate |-> TRUE, source |-> req ]

\* Mutant of Delegation: an unresolved request is handed on with an empty
\* specifier instead of the request.
DelegationDropsRequest(found, req) ==
    IF found.resolved # << >>
    THEN [ delegate |-> found.nodeModules, source |-> found.resolved ]
    ELSE [ delegate |-> TRUE, source |-> found.resolved ]

\* What follows findResolve: whether fallback.resolveId is called, and the
\* source it is called with (else the path returned).
Delegation(found, req) ==
    IF found.resolved # << >>
    THEN [ delegate |-> found.nodeModules, source |-> found.resolved ]
    ELSE [ delegate |-> TRUE, source |-> req ]

---------------------------------------------------------------------------
(* The inputs the model draws from.                                        *)

BaseUrl == << "/", "p", "r", "o", "j" >>

Importers == { UNDEFINED, << "/", "p", "r", "o", "j", "/", "m", ".", "t", "s" >> }

\* What fallback.resolveId may answer.
FallbackAnswers == { NULL, << "/", "d", "e", "p", ".", "j", "s" >> }

RECURSIVE StringsUpTo(_, _)
\* The strings over chars of length at most n.
StringsUpTo(chars, n) ==
    IF n = 0 THEN { << >> }
    ELSE LET shorter == StringsUpTo(chars, n - 1)
         IN  shorter \cup { Append(s, c) : s \in shorter, c \in chars }

\* The specifiers: every non-empty string over a, b up to MaxReqLen, and two
\* virtual module ids.
Requests ==
    (StringsUpTo({ "a", "b" }, MaxReqLen) \ { << >> }) \cup { NUL, NUL \o << "a" >> }

Prefixes == { << >>, << "a" >>, << "a", "b" >>, << "b" >> }

Suffixes == { << >>, << "b" >> }

\* *, a*, ab*, b*, *b, a*b, ab*b, b*b; the exact patterns a, ab; and a*b*,
\* which has two wildcard markers.
Patterns ==
    { p \o STAR \o s : p \in Prefixes, s \in Suffixes }
    \cup { << "a" >>, << "a", "b" >> }
    \cup { << "a", "*", "b", "*" >> }

T_SRC == << ".", "/", "s", "r", "c", "/", "*" >>

T_NODE_MODULES == << ".", "/", "n", "o", "d", "e", "_", "m", "o", "d", "u", "l", "e", "s", "/", "*" >>

T_D_TS == << ".", "/", "s", "r", "c", "/", "*", ".", "d", ".", "t", "s" >>

T_AT_TYPES == << ".", "/", "@", "t", "y", "p", "e", "s", "/", "*" >>

T_GLUED == << ".", "/", "s", "r", "c", "/", "x", "*" >>

T_TWO == << ".", "/", "*", "/", "*" >>

TargetTemplates == { T_SRC, T_NODE_MODULES, T_D_TS, T_AT_TYPES, T_GLUED, T_TWO }

\* The sequences over S of length at most n without a repeated element.
DistinctSeqs(S, n) ==
    UNION { { f \in [1..k -> S] : \A i, j \in 1..k : i # j => f[i] # f[j] } : k \in 0..n }

\* Alias tables that vary the patterns: up to MaxEntries entries, each with
\* the one target ./src/*.
MatchTables ==
    { [ i \in 1..Len(ps) |-> [ pattern |-> ps[i], targets |-> << T_SRC >> ] ]
      : ps \in DistinctSeqs(Patterns, MaxEntries) }

\* Alias tables that vary the targets: one entry, wildcarded (ab*, a*b) or exact
\* (ab), with up to MaxTargets targets.
TargetTables ==
    { << [ pattern |-> p, targets |-> ts ] >>
      : p \in { << "a", "b", "*" >>, << "a", "*", "b" >>, << "a", "b" >> },
        ts \in DistinctSeqs(TargetTemplates, MaxTargets) }

AliasTables == MatchTables \cup TargetTables

---------------------------------------------------------------------------
(* The state machine.                                                      *)

NoResult == [ kind |-> "none", value |-> << >> ]

\* No call has been made yet.
NoCall ==
    [ made |-> FALSE, between |-> FALSE,
      request |-> << >>, importer |-> UNDEFINED, tsOk |-> {}, fsOk |-> {},
      result |-> NoResult, tsCalls |-> << >>, fsCalls |-> << >>, fbCalls |-> << >> ]

Init ==
    /\ compilerOptions \in { [ baseUrl |-> BaseUrl, paths |-> t ] : t \in AliasTables }
    /\ mappings = createMappings(compilerOptions)
    /\ request = << >>
    /\ importer = UNDEFINED
    /\ matched = 0
    /\ matchedWildcard = << >>
    /\ tsOk = {}
    /\ fsOk = {}
    /\ tsCalls = << >>
    /\ fsCalls = << >>
    /\ fbCalls = << >>
    /\ result = NoResult
    /\ pc = "idle"
    /\ first = NoCall

\* Mutant of ResolveId: the target loop consumes the matched mapping's target
\* list (targets.shift() in place of an iteration), so that a call leaves the
\* shared matcher list one target shorter.
ResolveIdShiftsTargets(req, imp, okTs, okFs) ==
    /\ pc = "idle"
    /\ pc' = "returned"
    /\ request' = req
    /\ importer' = imp
    /\ tsOk' = okTs
    /\ fsOk' = okFs
    /\ IF Declines(req, imp)
       THEN /\ matched' = 0
            /\ matchedWildcard' = << >>
            /\ tsCalls' = << >>
            /\ fsCalls' = << >>
            /\ fbCalls' = << >>
            /\ result' = [ kind |-> "null", value |-> << >> ]
            /\ mappings' = mappings
       ELSE LET found == findResolve(compilerOptions, mappings, req, okTs, okFs)
                d == Delegation(found, req)
            IN  /\ matched' = found.matched
                /\ matchedWildcard' = found.matchedWildcard
                /\ tsCalls' = found.ts
                /\ fsCalls' = found.fs
                /\ mappings' = IF found.matched = 0 THEN mappings
                               ELSE [ mappings EXCEPT ![found.matched].targets =
                                          IF @ = << >> THEN @ ELSE Tail(@) ]
                /\ IF d.delegate
                   THEN /\ fbCalls' = << [ source |-> d.source, importer |-> imp ] >>
                        /\ \E fbAnswer \in FallbackAnswers :
                               result' = [ kind |-> "fallback", value |-> fbAnswer ]
                   ELSE /\ fbCalls' = << >>
                        /\ result' = [ kind |-> "path", value |-> d.source ]
    /\ UNCHANGED compilerOptions

\* One call of resolveId(req, imp), during which ts.resolveModuleName resolves
\* the paths of okTs, fs.existsSync reports those of okFs, and
\* fallback.resolveId, if called, gives any of its answers.
ResolveId(req, imp, okTs, okFs) ==
    /\ pc = "idle"
    /\ pc' = "returned"
    /\ request' = req
    /\ importer' = imp
    /\ tsOk' = okTs
    /\ fsOk' = okFs
    /\ IF Declines(req, imp)
       THEN /\ matched' = 0
            /\ matchedWildcard' = << >>
            /\ tsCalls' = << >>
            /\ fsCalls' = << >>
            /\ fbCalls' = << >>
            /\ result' = [ kind |-> "null", value |-> << >> ]
       ELSE LET found == findResolve(compilerOptions, mappings, req, okTs, okFs)
                d == Delegation(found, req)
            IN  /\ matched' = found.matched
                /\ matchedWildcard' = found.matchedWildcard
                /\ tsCalls' = found.ts
                /\ fsCalls' = found.fs
                /\ IF d.delegate
                   THEN /\ fbCalls' = << [ source |-> d.source, importer |-> imp ] >>
                        /\ \E fbAnswer \in FallbackAnswers :
                               result' = [ kind |-> "fallback", value |-> fbAnswer ]
                   ELSE /\ fbCalls' = << >>
                        /\ result' = [ kind |-> "path", value |-> d.source ]
    /\ UNCHANGED << compilerOptions, mappings >>

\* The call's frame is gone: nothing of a finished call is kept.
Return ==
    /\ pc = "returned"
    /\ pc' = "idle"
    /\ request' = << >>
    /\ importer' = UNDEFINED
    /\ matched' = 0
    /\ matchedWildcard' = << >>
    /\ tsOk' = {}
    /\ fsOk' = {}
    /\ tsCalls' = << >>
    /\ fsCalls' = << >>
    /\ fbCalls' = << >>
    /\ result' = NoResult
    /\ UNCHANGED << compilerOptions, mappings, first >>

\* The external answers of one call: each candidate path is resolved as a
\* module, or only exists as a file, or neither.
Answers(cands) == [ cands -> { "module", "file", "none" } ]

\* A call of resolveId with any request, importer and external answers.
Call ==
    /\ pc = "idle"
    /\ \E req \in Requests, imp \in Importers :
           IF Declines(req, imp)
           THEN ResolveId(req, imp, {}, {})
           ELSE LET cands == Candidates(compilerOptions, mappings, req)
                IN  \E ans \in Answers(cands) :
                        ResolveId(req, imp,
                                  { c \in cands : ans[c] = "module" },
                                  { c \in cands : ans[c] = "file" })
    /\ UNCHANGED first

Next == Call \/ Return

Spec == Init /\ [][Next]_vars

---------------------------------------------------------------------------
(* The same plugin under repeated calls: the first call of a behaviour is  *)
(* remembered, with the answers the external services gave it, and the     *)
(* calls after it are made against whatever the calls before them left.    *)
(*                                                                         *)
(* resolveId is an ordinary (not async) function and ts.resolveModuleName  *)
(* and fs.existsSync are synchronous calls: an invocation runs to its      *)
(* return before the next one starts, and what is still outstanding then   *)
(* is the fallback's promise, which resolveId has handed back untouched.   *)
(* The interleavings of invocations are therefore the sequences of whole   *)
(* calls.                                                                  *)

\* The alias tables of the repeated calls: patterns that match the same
\* requests (ab*, a*b, ab), targets in the project and under node_modules.
AgainTables ==
    { t \in AliasTables :
        \A i \in 1..Len(t) :
            /\ t[i].pattern \in { << "a", "b", "*" >>, << "a", "*", "b" >>, << "a", "b" >> }
            /\ \A k \in 1..Len(t[i].targets) :
                   t[i].targets[k] \in { T_SRC, T_NODE_MODULES } }

\* The requests of the repeated calls.
AgainRequests ==
    { << "a" >>, << "a", "b" >>, << "a", "b", "b" >>, << "a", "a", "b" >>, NUL \o << "a" >> }

InitAgain ==
    /\ Init
    /\ compilerOptions.paths \in AgainTables

\* A call of resolveId as in Call; the first call of the behaviour is written
\* down, and so is whether a call for another request, one that selected a
\* pattern, has followed it.
CallAgain ==
    /\ pc = "idle"
    /\ \E req \in AgainRequests, imp \in Importers :
           /\ IF Declines(req, imp)
              THEN ResolveId(req, imp, {}, {})
              ELSE LET cands == Candidates(compilerOptions, mappings, req)
                   IN  \E ans \in Answers(cands) :
                           ResolveId(req, imp,
                                     { c \in cands : ans[c] = "module" },
                                     { c \in cands : ans[c] = "file" })
           /\ first' = IF first.made
                       THEN [ first EXCEPT
                                !.between = @ \/ (req # first.request /\ matched' # 0) ]
                       ELSE [ made |-> TRUE, between |-> FALSE,
                              request |-> req, importer |-> imp,
                              tsOk |-> tsOk', fsOk |-> fsOk', result |-> result',
                              tsCalls |-> tsCalls', fsCalls |-> fsCalls',
                              fbCalls |-> fbCalls' ]

NextAgain == CallAgain \/ Return

SpecAgain == InitAgain /\ [][NextAgain]_vars

---------------------------------------------------------------------------
(* Vocabulary of the properties, stated from the specification's words and *)
(* read off the state left by a call.                                      *)

\* resolveId has returned from a call it did not decline.
Resolving == pc = "returned" /\ importer # UNDEFINED /\ ~StartsWith(request, NUL)

\* The number of wildcard markers of a string.
Markers(str) == Cardinality({ i \in 1..Len(str) : str[i] = "*" })

\* A non-wildcard pattern matches iff it equals the specifier; a wildcard
\* pattern iff the specifier is long enough, starts with the prefix and ends
\* with the suffix.
PatternMatches(mapping, req) ==
    IF mapping.wildcard
    THEN /\ Len(req) >= Len(mapping.prefix) + Len(mapping.suffix)
         /\ SubSeq(req, 1, Len(mapping.prefix)) = mapping.prefix
         /\ SubSeq(req, Len(req) - Len(mapping.suffix) + 1, Len(req)) = mapping.suffix
    ELSE req = mapping.pattern

\* The indices of the non-wildcard patterns equal to the specifier.
ExactHits == { i \in 1..Len(mappings) : ~mappings[i].wildcard /\ mappings[i].pattern = request }

\* The indices of the wildcard patterns that match the specifier.
WildcardHits == { i \in 1..Len(mappings) : mappings[i].wildcard /\ PatternMatches(mappings[i], request) }

\* The wildcard hits with the longest prefix.
LongestHits ==
    { i \in WildcardHits : \A j \in WildcardHits : Len(mappings[j].prefix) <= Len(mappings[i].prefix) }

\* The candidate paths of the selected pattern, in target order.
CandidateSeq ==
    IF matched = 0 THEN << >>
    ELSE [ i \in 1..Len(mappings[matched].targets) |->
             Answer(compilerOptions, mappings[matched], matchedWildcard,
                    mappings[matched].targets[i]) ]

PackageRooted(path) ==
    \E i \in 1..(Len(path) - Len(NODE_MODULES) + 1) :
        SubSeq(path, i, i + Len(NODE_MODULES) - 1) = NODE_MODULES

\* A candidate succeeds at one of the three stages.
Succeeds(path) == PackageRooted(path) \/ path \in tsOk \/ path \in fsOk

\* The first position of cs whose candidate succeeds, 0 if none does.
FirstSuccessIn(cs) ==
    LET ok == { i \in 1..Len(cs) : Succeeds(cs[i]) }
    IN  IF ok = {} THEN 0 ELSE CHOOSE i \in ok : \A j \in ok : i <= j

\* The first target whose candidate succeeds, 0 if none does.
FirstSuccess == FirstSuccessIn(CandidateSeq)

Range(seq) == { seq[i] : i \in 1..Len(seq) }

---------------------------------------------------------------------------
(* C1.  The matcher selects some pattern if and only if at least one       *)
(* pattern matches the specifier, wildcard patterns with an empty prefix   *)
(* (`*`, `*b`) included.                                                   *)

C1_SelectsIffMatches ==
    Resolving =>
        ((matched # 0) <=> (\E i \in 1..Len(mappings) : PatternMatches(mappings[i], request)))

---------------------------------------------------------------------------
(* C2.  Longest prefix wins: when no non-wildcard pattern equals the       *)
(* specifier and some wildcard pattern matches, the selected pattern is    *)
(* the earliest declared among the matching wildcard patterns with the     *)
(* longest prefix.                                                         *)

C2_LongestPrefixWins ==
    (Resolving /\ ExactHits = {} /\ WildcardHits # {}) =>
        /\ matched \in LongestHits
        /\ \A j \in LongestHits : matched <= j

\* What the code does keep of C2: a selected wildcard pattern is the earliest
\* of the matching ones with the longest prefix; it is the selection itself
\* that fails when that longest prefix is empty (C1).
C2_HoldsOfASelectedPattern ==
    (Resolving /\ ExactHits = {} /\ matched # 0) =>
        /\ matched \in LongestHits
        /\ \A j \in LongestHits : matched <= j

---------------------------------------------------------------------------
(* C3.  Exact-match dominance: if a compiled non-wildcard pattern equals   *)
(* the specifier, it is the selected pattern, wherever it is declared and  *)
(* whatever wildcard patterns match too, and only its targets are tried:   *)
(* every path handed to the module resolver, to the file check or, when    *)
(* package-rooted, to the fallback is one of its targets resolved          *)
(* against the base directory.                                             *)

C3_ExactMatchDominates ==
    \A e \in ExactHits :
        Resolving =>
            LET own == { PathResolve(compilerOptions.baseUrl, mappings[e].targets[k])
                         : k \in 1..Len(mappings[e].targets) }
            IN  /\ matched = e
                /\ Range(tsCalls) \subseteq own
                /\ Range(fsCalls) \subseteq own
                /\ \A k \in 1..Len(fbCalls) :
                       fbCalls[k].source = request \/ fbCalls[k].source \in own

\* An exact match selected although a wildcard pattern declared before it
\* matches the specifier with a non-empty prefix.
C3_Witness ==
    /\ Resolving
    /\ matched \in ExactHits
    /\ \E j \in WildcardHits : j < matched /\ Len(mappings[j].prefix) > 0
    /\ tsCalls # << >>

---------------------------------------------------------------------------
(* C4.  The capture of a selected wildcard pattern is the part of the      *)
(* specifier between prefix and suffix: prefix + capture + suffix is the   *)
(* specifier; the capture of an exact match is empty.                      *)

C4_CaptureIsTheMiddle ==
    (Resolving /\ matched # 0) =>
        IF mappings[matched].wildcard
        THEN mappings[matched].prefix \o matchedWildcard \o mappings[matched].suffix = request
        ELSE matchedWildcard = << >>

---------------------------------------------------------------------------
(* C5.  Target-order determinism: the targets of the selected pattern are  *)
(* tried in declared order up to the first one that succeeds (its          *)
(* candidate is package-rooted, or the module resolver resolves it, or it  *)
(* exists as a file); the outcome is that target's, no later target is     *)
(* resolved or probed, and the request counts as unresolved only when      *)
(* every target failed every stage.                                        *)

C5_FirstSuccessWins ==
    (Resolving /\ matched # 0) =>
        LET cs == CandidateSeq
            f == FirstSuccessIn(cs)
        IN  IF f = 0
            THEN /\ tsCalls = cs
                 /\ fsCalls = cs
                 /\ result.kind = "fallback"
                 /\ fbCalls = << [ source |-> request, importer |-> importer ] >>
            ELSE /\ tsCalls = SubSeq(cs, 1, IF PackageRooted(cs[f]) THEN f - 1 ELSE f)
                 /\ fsCalls = SubSeq(cs, 1, IF PackageRooted(cs[f]) \/ cs[f] \in tsOk
                                            THEN f - 1 ELSE f)
                 /\ IF PackageRooted(cs[f])
                    THEN /\ result.kind = "fallback"
                         /\ fbCalls = << [ source |-> cs[f], importer |-> importer ] >>
                    ELSE /\ result.kind = "path"
                         /\ fbCalls = << >>
                         /\ result.value =
                                IF cs[f] \in tsOk THEN ResolvedFileName(cs[f]) ELSE cs[f]

\* The second of two targets would succeed too, and is never asked about,
\* because the first one succeeded.
C5_Witness ==
    /\ Resolving
    /\ matched # 0
    /\ Len(CandidateSeq) >= 2
    /\ FirstSuccess = 1
    /\ CandidateSeq[2] # CandidateSeq[1]
    /\ Succeeds(CandidateSeq[2])
    /\ CandidateSeq[2] \notin Range(tsCalls) \cup Range(fsCalls)
    /\ result.kind = "path"

---------------------------------------------------------------------------
(* C6.  A package-rooted candidate (its path holds `node_modules/`) is     *)
(* never handed to the module resolver or to the file check and never      *)
(* returned directly: when it is the first candidate to succeed, the       *)
(* result is the fallback resolver's answer to (candidate, importer).      *)

C6_PackageRootedIsDelegated ==
    (Resolving /\ matched # 0) =>
        LET cs == CandidateSeq
            f == FirstSuccessIn(cs)
        IN  /\ \A c \in Range(tsCalls) \cup Range(fsCalls) : ~PackageRooted(c)
            /\ (f # 0 /\ PackageRooted(cs[f])) =>
                   /\ fbCalls = << [ source |-> cs[f], importer |-> importer ] >>
                   /\ result.kind = "fallback"
                   /\ result.value \in FallbackAnswers
                   /\ fbCalls[1].source # request

\* A package-rooted candidate reached after a first target that failed.
C6_Witness ==
    /\ Resolving
    /\ matched # 0
    /\ FirstSuccess = 2
    /\ PackageRooted(CandidateSeq[2])
    /\ Len(tsCalls) = 1
    /\ result.kind = "fallback"

---------------------------------------------------------------------------
(* C7.  resolveId declines (returns null without running the matcher or    *)
(* calling any external service) exactly when the importer is absent, or   *)
(* the specifier starts with `\0`, or the compiled matcher list is empty.  *)

C7_DeclinesExactlyWhen ==
    pc = "returned" =>
        ((result.kind = "null" /\ tsCalls = << >> /\ fsCalls = << >> /\ fbCalls = << >>)
         <=> (importer = UNDEFINED \/ StartsWith(request, NUL) \/ Len(mappings) = 0))

---------------------------------------------------------------------------
(* C8.  A request that is not declined and that the engine cannot satisfy  *)
(* (no pattern is selected, or every target of the selected pattern fails  *)
(* every stage) is delegated: the fallback resolver is called exactly once,*)
(* with the original specifier and the importer, its answer is the result, *)
(* and no path outside the selected pattern's candidates was tried.        *)

C8_UnsatisfiedIsDelegated ==
    Resolving =>
        LET cs == CandidateSeq
        IN  (matched = 0 \/ FirstSuccessIn(cs) = 0) =>
                /\ fbCalls = << [ source |-> request, importer |-> importer ] >>
                /\ result.kind = "fallback"
                /\ result.value \in FallbackAnswers
                /\ tsCalls = cs
                /\ fsCalls = cs

\* Every target of the selected pattern failed while another, less specific
\* pattern matches the specifier as well.
C8_Witness ==
    /\ Resolving
    /\ matched # 0
    /\ FirstSuccess = 0
    /\ \E j \in WildcardHits : j # matched /\ Len(mappings[j].prefix) > 0
    /\ tsCalls # << >>
    /\ result.kind = "fallback"

---------------------------------------------------------------------------
(* C9.  Every compiled matcher has at most one wildcard marker in its      *)
(* pattern and a non-empty target list; the compiled list is the alias     *)
(* table without the entries whose pattern has more than one marker or     *)
(* whose filtered target list is empty, in the table's order.              *)

Survives(entry) ==
    Markers(entry.pattern) <= 1 /\ FilterTargets(entry.targets, 1) # << >>

C9_CompiledList ==
    LET kept == SelectSeq(compilerOptions.paths, Survives)
    IN  /\ \A i \in 1..Len(mappings) :
               Markers(mappings[i].pattern) <= 1 /\ Len(mappings[i].targets) > 0
        /\ Len(mappings) = Len(kept)
        /\ \A i \in 1..Len(kept) :
               /\ mappings[i].pattern = kept[i].pattern
               /\ mappings[i].targets = FilterTargets(kept[i].targets, 1)

\* A table whose first entry is dropped for its two markers and whose second
\* entry survives.
C9_Witness ==
    /\ Len(compilerOptions.paths) = 2
    /\ Markers(compilerOptions.paths[1].pattern) > 1
    /\ Len(mappings) = 1
    /\ mappings[1].pattern = compilerOptions.paths[2].pattern

---------------------------------------------------------------------------
(* C10.  No target of a compiled matcher has invalid wildcard usage: none  *)
(* holds more than one marker, and under a wildcarded pattern the marker   *)
(* of a target is a path segment of its own, not glued to other            *)
(* characters.                                                             *)

\* Every marker of the target stands alone between separators (or the ends).
MarkerIsolated(target) ==
    \A i \in 1..Len(target) :
        target[i] = "*" =>
            /\ (i = 1 \/ target[i - 1] = "/")
            /\ (i = Len(target) \/ target[i + 1] = "/")

C10_TargetsWellFormed ==
    \A i \in 1..Len(mappings) :
        \A k \in 1..Len(mappings[i].targets) :
            /\ Markers(mappings[i].targets[k]) <= 1
            /\ mappings[i].wildcard => MarkerIsolated(mappings[i].targets[k])

---------------------------------------------------------------------------
(* C11.  Statelessness: no call of resolveId changes the compiled matcher  *)
(* list or the compiler options, and a call with the request, the importer *)
(* and the external answers of the first call has the first call's         *)
(* outcome (the same questions to the module resolver and the file check,  *)
(* and the same path returned or the same question handed to the fallback  *)
(* resolver), whatever was resolved in between.                            *)

\* resolveId has returned from a call made like the first one.
Repeated ==
    /\ pc = "returned"
    /\ first.made
    /\ request = first.request
    /\ importer = first.importer
    /\ tsOk = first.tsOk
    /\ fsOk = first.fsOk

\* The outcome is the first call's; the value of a delegated call is the
\* fallback resolver's own answer to the question it was asked.
SameOutcome ==
    /\ result.kind = first.result.kind
    /\ tsCalls = first.tsCalls
    /\ fsCalls = first.fsCalls
    /\ fbCalls = first.fbCalls
    /\ result.kind = "path" => result.value = first.result.value

C11_Stateless ==
    /\ [][mappings' = mappings /\ compilerOptions' = compilerOptions]_vars
    /\ [](Repeated => SameOutcome)

\* The first request resolved to a path again, after another request was
\* matched and resolved in between, against a list of several matchers.
C11_Witness ==
    /\ Repeated
    /\ first.between
    /\ Len(mappings) > 1
    /\ matched # 0
    /\ tsCalls # << >>
    /\ result.kind = "path"

====
